---- MODULE Spec2Model ----
(***************************************************************************)
(* LCOH calculator (React component App): the power-source configuration,  *)
(* the profile downloads, the LCOE cache kept on every source and the      *)
(* delayed LCOH run with its hour-by-hour merit-order dispatch.            *)
(*                                                                         *)
(* JavaScript numbers are modelled as binary floating-point values with    *)
(* rounding to nearest, a signed zero, the infinities and NaN; null and    *)
(* undefined are values of their own.  Source objects live in a heap       *)
(* (objs) because the handlers mutate them in place: arrays and closures   *)
(* hold references, not copies.                                            *)
(***************************************************************************)
EXTENDS Integers, Sequences, FiniteSets, TLC

(***************************************************************************)
(* Bounds of the model.                                                    *)
(***************************************************************************)
\* days of the modelled year (365 in the source)
DaysPerYear == 32
\* hours of a modelled day (24 in the source)
HoursPerDay == 2
\* hours of the modelled year (8760 = 365 * 24 in the source)
HoursPerYear == DaysPerYear * HoursPerDay
\* most sources the list may hold
MaxSources == 3
\* most user events (clicks, edits) of one behaviour
MaxSteps == 4
\* most sources of a configuration the engine is started on
MaxEngineSources == 2

(***************************************************************************)
(* Numbers.  A JavaScript number is a binary floating-point value: NaN, an *)
(* infinity, or (-1)^s * m * 2^e with at most MantissaBits significant     *)
(* bits.  Every operation gives the representable value nearest to the     *)
(* exact result, ties to the even mantissa, and zero carries a sign.  The  *)
(* exponent is not bounded: the amounts of the calculator stay far from    *)
(* the overflow and underflow thresholds of the format.                    *)
(***************************************************************************)
\* significant bits of a number (53 in the source).  13 = 53 - 2 * 20, and
\* the binary expansion of every multiple of 1/100 has a period dividing 20,
\* so decimal amounts to two places round the same way as in the source
MantissaBits == 13

Abs(i) == IF i < 0 THEN -i ELSE i

\* the number of bits of m >= 0
RECURSIVE BitLength(_)
BitLength(m) == IF m = 0 THEN 0 ELSE 1 + BitLength(m \div 2)

\* the finite number (-1)^s * m * 2^e, written with an odd m (zero: m = e = 0)
RECURSIVE Normal(_, _, _)
Normal(s, m, e) ==
    IF m = 0 THEN [k |-> "fin", s |-> s, m |-> 0, e |-> 0]
    ELSE IF m % 2 = 0 THEN Normal(s, m \div 2, e + 1)
    ELSE [k |-> "fin", s |-> s, m |-> m, e |-> e]

\* (-1)^s * (m + f) * 2^e rounded to MantissaBits bits, to nearest, ties to
\* even; 0 <= f < 1 and sticky tells whether f > 0 (then m has more than
\* MantissaBits bits)
Round(s, m, e, sticky) ==
    LET shift == BitLength(m) - MantissaBits
    IN  IF shift <= 0 THEN Normal(s, m, e)
        ELSE LET q == m \div 2^shift
                 r == m % 2^shift
                 half == 2^(shift - 1)
                 up == r > half \/ (r = half /\ (sticky \/ q % 2 = 1))
             IN  Normal(s, IF up THEN q + 1 ELSE q, e + shift)

\* the number an integer literal denotes
Int2Num(i) == Round(IF i < 0 THEN 1 ELSE 0, Abs(i), 0, FALSE)
NaN == [k |-> "nan", s |-> 0, m |-> 0, e |-> 0]
Infinity == [k |-> "inf", s |-> 0, m |-> 0, e |-> 0]
NegInfinity == [k |-> "inf", s |-> 1, m |-> 0, e |-> 0]
Null == [k |-> "null", s |-> 0, m |-> 0, e |-> 0]
Undefined == [k |-> "undef", s |-> 0, m |-> 0, e |-> 0]
Zero == [k |-> "fin", s |-> 0, m |-> 0, e |-> 0]
NegZero == [k |-> "fin", s |-> 1, m |-> 0, e |-> 0]
One == [k |-> "fin", s |-> 0, m |-> 1, e |-> 0]

IsFinite(x) == x.k = "fin"
IsNaN(x) == x.k = "nan"
IsZero(x) == x.k = "fin" /\ x.m = 0
\* 1, -1 or 0 as a number (not NaN) is positive, negative or a zero
Sign(x) == IF IsZero(x) THEN 0 ELSE IF x.s = 1 THEN -1 ELSE 1
\* the sign bit of the product or quotient of a and b
SignOfProduct(a, b) == (a.s + b.s) % 2

\* null takes part in arithmetic as 0 and undefined as NaN (ToNumber)
ToNumber(x) == IF x.k = "null" THEN Zero ELSE IF x.k = "undef" THEN NaN ELSE x

\* the position of the leading bit of a finite number other than zero
Top(x) == BitLength(x.m) + x.e

\* -1, 0 or 1 as |a| is below, equal to or above |b|, for finite a and b
CompareMagnitude(a, b) ==
    IF a.m = 0 \/ b.m = 0
    THEN (IF a.m = b.m THEN 0 ELSE IF a.m = 0 THEN -1 ELSE 1)
    ELSE IF Top(a) # Top(b) THEN (IF Top(a) < Top(b) THEN -1 ELSE 1)
    ELSE LET e0 == IF a.e < b.e THEN a.e ELSE b.e
             ma == a.m * 2^(a.e - e0)
             mb == b.m * 2^(b.e - e0)
         IN  IF ma < mb THEN -1 ELSE IF ma > mb THEN 1 ELSE 0

\* a + b for finite a and b.  An operand whose leading bit is more than
\* MantissaBits + 1 places below the other's is less than a quarter of the
\* other's last place and does not change it.  An exact sum of 0 is +0
\* unless both operands are -0.
AddFinite(a, b) ==
    IF a.m = 0 /\ b.m = 0 THEN (IF a.s = 1 /\ b.s = 1 THEN NegZero ELSE Zero)
    ELSE IF a.m = 0 THEN b
    ELSE IF b.m = 0 THEN a
    ELSE IF Top(a) - Top(b) > MantissaBits + 1 THEN a
    ELSE IF Top(b) - Top(a) > MantissaBits + 1 THEN b
    ELSE LET e0 == IF a.e < b.e THEN a.e ELSE b.e
             ma == a.m * 2^(a.e - e0)
             mb == b.m * 2^(b.e - e0)
             sum == (IF a.s = 1 THEN -ma ELSE ma) + (IF b.s = 1 THEN -mb ELSE mb)
         IN  IF sum = 0 THEN Zero
             ELSE Round(IF sum < 0 THEN 1 ELSE 0, Abs(sum), e0, FALSE)

\* a + b
Add(a0, b0) ==
    LET a == ToNumber(a0)
        b == ToNumber(b0)
    IN  IF IsNaN(a) \/ IsNaN(b) THEN NaN
        ELSE IF a.k = "inf" /\ b.k = "inf" THEN (IF a.s = b.s THEN a ELSE NaN)
        ELSE IF a.k = "inf" THEN a
        ELSE IF b.k = "inf" THEN b
        ELSE AddFinite(a, b)

Neg(a) == IF IsNaN(a) THEN NaN ELSE [a EXCEPT !.s = 1 - a.s]

\* a - b
Sub(a, b) == Add(a, Neg(ToNumber(b)))

\* a * b
Mul(a0, b0) ==
    LET a == ToNumber(a0)
        b == ToNumber(b0)
    IN  IF IsNaN(a) \/ IsNaN(b) THEN NaN
        ELSE IF a.k = "inf" \/ b.k = "inf"
             THEN (IF IsZero(a) \/ IsZero(b) THEN NaN
                   ELSE IF SignOfProduct(a, b) = 0 THEN Infinity ELSE NegInfinity)
        ELSE Round(SignOfProduct(a, b), a.m * b.m, a.e + b.e, FALSE)

\* a / b for finite a and b other than zero: the mantissa of a is brought to
\* MantissaBits bits and MantissaBits + 2 more, so that the integer quotient
\* has the bits the rounding reads and the remainder tells the rest
DivFinite(a, b) ==
    LET scale == 2 * MantissaBits + 2 - BitLength(a.m)
        scaled == a.m * 2^scale
    IN  Round(SignOfProduct(a, b), scaled \div b.m, a.e - scale - b.e, scaled % b.m # 0)

\* a / b: x/0 is +-Infinity, 0/0 and Infinity/Infinity are NaN
Div(a0, b0) ==
    LET a == ToNumber(a0)
        b == ToNumber(b0)
    IN  IF IsNaN(a) \/ IsNaN(b) THEN NaN
        ELSE IF a.k = "inf" /\ b.k = "inf" THEN NaN
        ELSE IF a.k = "inf"
             THEN (IF SignOfProduct(a, b) = 0 THEN Infinity ELSE NegInfinity)
        ELSE IF b.k = "inf"
             THEN (IF SignOfProduct(a, b) = 0 THEN Zero ELSE NegZero)
        ELSE IF b.m = 0
             THEN (IF a.m = 0 THEN NaN
                   ELSE IF SignOfProduct(a, b) = 0 THEN Infinity ELSE NegInfinity)
        ELSE IF a.m = 0
             THEN (IF SignOfProduct(a, b) = 0 THEN Zero ELSE NegZero)
        ELSE DivFinite(a, b)

\* the number the decimal literal with the value n/d denotes
Rat(n, d) == Div(Int2Num(n), Int2Num(d))

\* a < b (false when either is NaN)
Less(a0, b0) ==
    LET a == ToNumber(a0)
        b == ToNumber(b0)
    IN  IF IsNaN(a) \/ IsNaN(b) THEN FALSE
        ELSE IF a.k = "inf" THEN a.s = 1 /\ ~(b.k = "inf" /\ b.s = 1)
        ELSE IF b.k = "inf" THEN b.s = 0
        ELSE IF Sign(a) # Sign(b) THEN Sign(a) < Sign(b)
        ELSE IF Sign(a) > 0 THEN CompareMagnitude(a, b) < 0
        ELSE IF Sign(a) < 0 THEN CompareMagnitude(a, b) > 0
        ELSE FALSE

\* a <= b (false when either is NaN)
LessEq(a, b) ==
    ~IsNaN(ToNumber(a)) /\ ~IsNaN(ToNumber(b)) /\ ~Less(b, a)

\* Math.min(a, b), Math.max(a, b): NaN when either is NaN; -0 is below +0
MathMin(a, b) ==
    IF IsNaN(ToNumber(a)) \/ IsNaN(ToNumber(b)) THEN NaN
    ELSE IF Less(b, a) THEN ToNumber(b)
    ELSE IF Less(a, b) THEN ToNumber(a)
    ELSE IF ToNumber(b).s = 1 THEN ToNumber(b) ELSE ToNumber(a)

MathMax(a, b) ==
    IF IsNaN(ToNumber(a)) \/ IsNaN(ToNumber(b)) THEN NaN
    ELSE IF Less(a, b) THEN ToNumber(b)
    ELSE IF Less(b, a) THEN ToNumber(a)
    ELSE IF ToNumber(b).s = 0 THEN ToNumber(b) ELSE ToNumber(a)

\* the digits of the exact integer powers below are kept in base Limb, least
\* significant digit first, so that no product leaves the integers of TLC
Limb == 2^MantissaBits

\* the digits of digits * m + carry, for 0 <= m, carry < Limb
RECURSIVE LimbsTimes(_, _, _)
LimbsTimes(digits, m, carry) ==
    IF digits = <<>> THEN (IF carry = 0 THEN <<>> ELSE <<carry>>)
    ELSE <<(Head(digits) * m + carry) % Limb>>
             \o LimbsTimes(Tail(digits), m, (Head(digits) * m + carry) \div Limb)

\* the digits of m^e, for 0 < m < Limb
RECURSIVE LimbsPower(_, _)
LimbsPower(m, e) ==
    IF e = 0 THEN <<1>> ELSE LimbsTimes(LimbsPower(m, e - 1), m, 0)

\* Math.pow(base, e) for an integer e >= 0: the exact power rounded once.
\* The two leading digits of the exact mantissa hold more than MantissaBits
\* bits, and the digits below them only say whether the rest is zero.
MathPow(base0, e) ==
    LET base == ToNumber(base0)
        s == IF e % 2 = 1 THEN base.s ELSE 0
        digits == LimbsPower(base.m, e)
        n == Len(digits)
    IN  IF e = 0 THEN One
        ELSE IF IsNaN(base) THEN NaN
        ELSE IF base.k = "inf" THEN (IF s = 0 THEN Infinity ELSE NegInfinity)
        ELSE IF base.m = 0 THEN (IF s = 0 THEN Zero ELSE NegZero)
        ELSE IF n = 1 THEN Round(s, digits[1], base.e * e, FALSE)
        ELSE Round(s, digits[n] * Limb + digits[n - 1],
                   base.e * e + MantissaBits * (n - 2),
                   \E i \in 1..(n - 2) : digits[i] # 0)

\* !x of JavaScript for a number, null or undefined: null, undefined, NaN
\* and 0 are falsy
Falsy(x) == x.k \in {"null", "undef", "nan"} \/ IsZero(x)

\* the running total after f[lo], ..., f[hi] were added to it in index order
\* (the total of the earlier terms is evaluated first; NaN stays NaN)
RECURSIVE SumFrom(_, _, _, _)
SumFrom(total, f, lo, hi) ==
    IF IsNaN(total) \/ hi < lo THEN total
    ELSE IF lo = hi THEN Add(total, f[lo])
    ELSE SumFrom(SumFrom(total, f, lo, (lo + hi) \div 2), f, (lo + hi) \div 2 + 1, hi)

\* the sum of f[i] for i in 1..n, added in index order
SumTo(f, n) == SumFrom(Zero, f, 1, n)

(***************************************************************************)
(* calculateLCOE: the discounted levelized cost of energy of one source.   *)
(***************************************************************************)
\* a timeSeriesData of null is the empty sequence: every stored profile has
\* HoursPerYear > 0 entries
NoSeries == <<>>

\* start + Sum_{year = 1..lifetime} amount / (1 + discountRate)^year, the
\* terms added to the running total year by year
RECURSIVE PresentValue(_, _, _, _)
PresentValue(start, amount, discountRate, lifetime) ==
    IF lifetime <= 0 THEN start
    ELSE Add(PresentValue(start, amount, discountRate, lifetime - 1),
             Div(amount, MathPow(Add(One, discountRate), lifetime)))

\* the annual energy of one MW, whatever the capacity of the source
AnnualEnergyProduction_PerMW(source, timeSeriesData, financialParams) ==
    IF timeSeriesData # NoSeries /\ Len(timeSeriesData) > 0
    THEN Mul(SumTo(timeSeriesData, Len(timeSeriesData)), Int2Num(1000))
    ELSE Mul(Mul(Int2Num(1000), Div(financialParams.capacityFactor, Int2Num(100))),
             Int2Num(HoursPerYear))

\* the annual energy in kWh of a source with the given profile (or without one)
AnnualEnergyProduction(source, timeSeriesData, financialParams) ==
    IF timeSeriesData # NoSeries /\ Len(timeSeriesData) > 0
    THEN Mul(SumTo([i \in 1..Len(timeSeriesData) |->
                       Mul(source.capacity, timeSeriesData[i])],
                   Len(timeSeriesData)),
             Int2Num(1000))
    ELSE Mul(Mul(Mul(source.capacity, Int2Num(1000)),
                 Div(financialParams.capacityFactor, Int2Num(100))),
             Int2Num(HoursPerYear))

\* lcoe = totalPresentValueCost / totalPresentValueEnergy
LcoeQuotient(totalPresentValueCost, totalPresentValueEnergy) ==
    Div(totalPresentValueCost, totalPresentValueEnergy)

calculateLCOE(source, timeSeriesData, financialParams) ==
    LET capacityKW == Mul(source.capacity, Int2Num(1000))
        annualEnergyProduction ==
            AnnualEnergyProduction(source, timeSeriesData, financialParams)
        discountRate == Div(financialParams.returnRate, Int2Num(100))
        totalPresentValueCost ==
            PresentValue(Mul(source.capex, capacityKW), Mul(source.opex, capacityKW),
                         discountRate, financialParams.lifetime)
        totalPresentValueEnergy ==
            PresentValue(Zero, annualEnergyProduction, discountRate,
                         financialParams.lifetime)
    IN  LcoeQuotient(totalPresentValueCost, totalPresentValueEnergy)

(***************************************************************************)
(* The run of calculateLCOH's timer callback, as a function of the sources *)
(* it holds (in list order) and of the electrolyzer and financial objects. *)
(***************************************************************************)
\* the comparator of the merit-order sort: < 0, 0 or > 0
CompareSources(a, b) ==
    IF Falsy(a.lcoe) THEN 1
    ELSE IF Falsy(b.lcoe) THEN -1
    ELSE LET diff == Sub(a.lcoe, b.lcoe)
         IN  IF IsNaN(diff) THEN 0 ELSE Sign(diff)

\* s with x put after the last of its leading elements that do not compare
\* above x (a stable insertion step)
RECURSIVE InsertSorted(_, _)
InsertSorted(s, x) ==
    IF s = <<>> THEN <<x>>
    ELSE IF CompareSources(x, Head(s)) < 0 THEN <<x>> \o s
    ELSE <<Head(s)>> \o InsertSorted(Tail(s), x)

\* [...updatedSources].sort(comparator): a stable sort
RECURSIVE SortSources(_)
SortSources(s) ==
    IF s = <<>> THEN <<>>
    ELSE InsertSorted(SortSources(SubSeq(s, 1, Len(s) - 1)), s[Len(s)])

\* the capacity factor of a source in hour (0-based)
CapacityFactorAt(source, hour, financial) ==
    IF source.timeSeriesData # NoSeries /\ Len(source.timeSeriesData) > hour
    THEN source.timeSeriesData[hour + 1]
    ELSE IF source.type = "grid" THEN One
    ELSE Div(financial.capacityFactor, Int2Num(100))

AvailablePower(source, hour, financial) ==
    Mul(source.capacity, CapacityFactorAt(source, hour, financial))

PowerUsed(availablePower, remainingDemand) ==
    MathMin(availablePower, remainingDemand)

PowerCurtailed(availablePower, powerUsed) ==
    MathMax(Zero, Sub(availablePower, powerUsed))

\* `if (!source.lcoe) continue`
SkippedByDispatch(source) == Falsy(source.lcoe)

\* `if (remainingDemand <= 0) break`
DemandMet(remainingDemand) == LessEq(remainingDemand, Zero)

\* `if (!energyBySource[type]) energyBySource[type] = 0` and then
\* energyBySource[type] += powerUsed: a key that is new, or whose energy is
\* falsy (0 or NaN), starts again at 0; the keys keep their insertion order
RECURSIVE AddEnergy(_, _, _)
AddEnergy(energyBySource, type, powerUsed) ==
    IF energyBySource = <<>> THEN <<[type |-> type, energy |-> Add(Zero, powerUsed)]>>
    ELSE IF Head(energyBySource).type = type
         THEN <<[type |-> type,
                 energy |-> Add(IF Falsy(Head(energyBySource).energy) THEN Zero
                                ELSE Head(energyBySource).energy,
                                powerUsed)]>>
              \o Tail(energyBySource)
    ELSE <<Head(energyBySource)>> \o AddEnergy(Tail(energyBySource), type, powerUsed)

\* the accumulators of the hour after a source supplied powerUsed and had
\* powerCurtailed left over
Allocated(acc, type, powerUsed, powerCurtailed) ==
    [remainingDemand |-> Sub(acc.remainingDemand, powerUsed),
     hourlyEnergyUsed |-> Add(acc.hourlyEnergyUsed, powerUsed),
     hourlyCurtailed |-> Add(acc.hourlyCurtailed, powerCurtailed),
     energyBySource |-> AddEnergy(acc.energyBySource, type, powerUsed),
     sourceDispatch |-> Append(acc.sourceDispatch,
         [type |-> type, powerUsed |-> powerUsed, powerCurtailed |-> powerCurtailed])]

\* powerCurtailed of a source that supplied powerUsed of its availablePower
Curtail(acc, type, availablePower, powerUsed) ==
    Allocated(acc, type, powerUsed, PowerCurtailed(availablePower, powerUsed))

\* powerUsed of a source with availablePower against the remaining demand
Allocate(acc, type, availablePower) ==
    Curtail(acc, type, availablePower, PowerUsed(availablePower, acc.remainingDemand))

\* the body of the inner loop for a source that is neither skipped nor after
\* the break
DispatchSource(acc, source, hour, financial) ==
    Allocate(acc, source.type, AvailablePower(source, hour, financial))

\* the inner loop over sortedSources from position i on
RECURSIVE DispatchSources(_, _, _, _, _)
DispatchSources(sortedSources, i, hour, financial, acc) ==
    IF i > Len(sortedSources) THEN acc
    ELSE IF DemandMet(acc.remainingDemand) THEN acc
    ELSE IF SkippedByDispatch(sortedSources[i])
         THEN DispatchSources(sortedSources, i + 1, hour, financial, acc)
    ELSE DispatchSources(sortedSources, i + 1, hour, financial,
                         DispatchSource(acc, sortedSources[i], hour, financial))

\* the entry of hourlyDispatch for an hour
HourlyDispatchEntry(hour, acc, electrolyzer) ==
    [hour |-> hour,
     energyUsed |-> acc.hourlyEnergyUsed,
     curtailedEnergy |-> acc.hourlyCurtailed,
     dispatchPercentage |-> Div(acc.hourlyEnergyUsed, electrolyzer.capacity),
     sources |-> acc.sourceDispatch]

\* the totals after an hour whose inner loop ended with acc
HourTotals(prev, hour, acc, electrolyzer) ==
    [hourlyDispatch |-> Append(prev.hourlyDispatch,
                               HourlyDispatchEntry(hour, acc, electrolyzer)),
     totalEnergyUsed |-> Add(prev.totalEnergyUsed, acc.hourlyEnergyUsed),
     totalCurtailedEnergy |-> Add(prev.totalCurtailedEnergy, acc.hourlyCurtailed),
     energyBySource |-> acc.energyBySource]

\* one pass of the outer loop, from the totals of the hours before
DispatchHour(prev, hour, sortedSources, electrolyzer, financial) ==
    HourTotals(prev, hour,
               DispatchSources(sortedSources, 1, hour, financial,
                   [remainingDemand |-> electrolyzer.capacity,
                    hourlyEnergyUsed |-> Zero,
                    hourlyCurtailed |-> Zero,
                    energyBySource |-> prev.energyBySource,
                    sourceDispatch |-> <<>>]),
               electrolyzer)

\* the passes of the outer loop for the hours lo .. hi, from the totals prev
\* of the hours before lo (evaluated first: one entry pushed per hour)
RECURSIVE DispatchRange(_, _, _, _, _, _)
DispatchRange(prev, lo, hi, sortedSources, electrolyzer, financial) ==
    IF Len(prev.hourlyDispatch) # lo \/ hi < lo THEN prev
    ELSE IF lo = hi THEN DispatchHour(prev, lo, sortedSources, electrolyzer, financial)
    ELSE DispatchRange(DispatchRange(prev, lo, (lo + hi) \div 2,
                                     sortedSources, electrolyzer, financial),
                       (lo + hi) \div 2 + 1, hi, sortedSources, electrolyzer, financial)

\* the outer loop: hours 0 .. n-1, carrying the totals
DispatchHours(sortedSources, n, electrolyzer, financial) ==
    DispatchRange([hourlyDispatch |-> <<>>, totalEnergyUsed |-> Zero,
                   totalCurtailedEnergy |-> Zero, energyBySource |-> <<>>],
                  0, n - 1, sortedSources, electrolyzer, financial)

\* the first source of the list with the given type, as Array.prototype.find
\* gives it: its index, or 0 when there is none
FindByType(updatedSources, type) ==
    IF \E i \in 1..Len(updatedSources) : updatedSources[i].type = type
    THEN CHOOSE i \in 1..Len(updatedSources) :
            /\ updatedSources[i].type = type
            /\ \A j \in 1..(i - 1) : updatedSources[j].type # type
    ELSE 0

\* the cost of the energy of one entry of energyBySource
SourceEnergyCost(updatedSources, entry) ==
    LET i == FindByType(updatedSources, entry.type)
    IN  IF i # 0 /\ ~Falsy(updatedSources[i].lcoe)
        THEN Mul(Mul(entry.energy, Int2Num(1000)), updatedSources[i].lcoe)
        ELSE Zero

\* capital recovery factor
CapitalRecoveryFactor(financial) ==
    LET discountRate == Div(financial.returnRate, Int2Num(100))
        growth == MathPow(Add(One, discountRate), financial.lifetime)
    IN  Div(Mul(discountRate, growth), Sub(growth, One))

\* lcoh = totalAnnualCost / annualH2Production
LcohQuotient(totalAnnualCost, annualH2Production) ==
    Div(totalAnnualCost, annualH2Production)

\* curtailmentPercentage of energyStats
CurtailmentPercentage(totalEnergyUsed, totalCurtailedEnergy) ==
    Mul(Div(totalCurtailedEnergy, Add(totalEnergyUsed, totalCurtailedEnergy)),
        Int2Num(100))

Percentage(amount, total) == Mul(Div(amount, total), Int2Num(100))

NoResults == [published |-> FALSE]

\* annualH2Production from the energy used and the electrolyzer
AnnualH2Production(totalEnergyUsed, electrolyzer) ==
    Div(Mul(totalEnergyUsed, Int2Num(1000)),
        Div(electrolyzer.baseConsumption, Div(electrolyzer.efficiency, Int2Num(100))))

\* totalAnnualizedCapex, totalAnnualOpex and totalEnergyCost
AnnualCosts(updatedSources, electrolyzer, energyBySource, crf) ==
    [capex |->
        Add(SumTo([i \in 1..Len(updatedSources) |->
                      Mul(Mul(Mul(updatedSources[i].capacity, Int2Num(1000)),
                              updatedSources[i].capex), crf)],
                  Len(updatedSources)),
            Mul(Mul(Mul(electrolyzer.capacity, Int2Num(1000)), electrolyzer.capex), crf)),
     opex |->
        Add(SumTo([i \in 1..Len(updatedSources) |->
                      Mul(Mul(updatedSources[i].capacity, Int2Num(1000)),
                          updatedSources[i].opex)],
                  Len(updatedSources)),
            Mul(Mul(electrolyzer.capacity, Int2Num(1000)), electrolyzer.opex)),
     energy |->
        SumTo([i \in 1..Len(energyBySource) |->
                  SourceEnergyCost(updatedSources, energyBySource[i])],
              Len(energyBySource))]

TotalAnnualCost(costs) == Add(Add(costs.capex, costs.opex), costs.energy)

CostBreakdown(costs, totalAnnualCost) ==
    [capex |-> [amount |-> costs.capex,
                percentage |-> Percentage(costs.capex, totalAnnualCost)],
     opex |-> [amount |-> costs.opex,
               percentage |-> Percentage(costs.opex, totalAnnualCost)],
     energy |-> [amount |-> costs.energy,
                 percentage |-> Percentage(costs.energy, totalAnnualCost)]]

EnergyStats(d, electrolyzer) ==
    [totalEnergyUsed |-> d.totalEnergyUsed,
     totalCurtailedEnergy |-> d.totalCurtailedEnergy,
     curtailmentPercentage |->
        CurtailmentPercentage(d.totalEnergyUsed, d.totalCurtailedEnergy),
     utilizationRate |->
        Div(d.totalEnergyUsed, Mul(electrolyzer.capacity, Int2Num(HoursPerYear)))]

EnergyMix(energyBySource, totalEnergyUsed) ==
    [i \in 1..Len(energyBySource) |->
        [type |-> energyBySource[i].type,
         energy |-> energyBySource[i].energy,
         percentage |-> Percentage(energyBySource[i].energy, totalEnergyUsed)]]

\* the days of the twelve months; the hours of the modelled year are
\* January's and the first of February's
daysInMonth == <<31, 28, 31, 30, 31, 30, 31, 31, 30, 31, 30, 31>>

\* totalEnergy or totalCurtailed of a month: the field of the entries at the
\* (0-based) indices from .. to - 1, added in hour order
MonthTotal(hourlyDispatch, field, from, to) ==
    SumTo([h \in 1..(to - from) |-> hourlyDispatch[from + h][field]], to - from)

\* hourIndex after the inner loop of a month:
\* `h < hoursInMonth && hourIndex < hourlyDispatch.length`
MonthEnd(hourIndex, hoursInMonth, length) ==
    IF hourIndex >= length THEN hourIndex
    ELSE IF hourIndex + hoursInMonth < length THEN hourIndex + hoursInMonth
    ELSE length

\* the entry pushed for a month (0-based, standing for its short name) whose
\* hours are those from hourIndex up to end
MonthEntry(hourlyDispatch, month, hourIndex, end) ==
    [month |-> month,
     energy |-> MonthTotal(hourlyDispatch, "energyUsed", hourIndex, end),
     curtailed |-> MonthTotal(hourlyDispatch, "curtailedEnergy", hourIndex, end)]

\* the loop over the months from month on, hourIndex carried along
RECURSIVE MonthlyData(_, _, _)
MonthlyData(hourlyDispatch, month, hourIndex) ==
    IF month >= 12 THEN <<>>
    ELSE <<MonthEntry(hourlyDispatch, month, hourIndex,
                      MonthEnd(hourIndex, daysInMonth[month + 1] * HoursPerDay,
                               Len(hourlyDispatch)))>>
         \o MonthlyData(hourlyDispatch, month + 1,
                        MonthEnd(hourIndex, daysInMonth[month + 1] * HoursPerDay,
                                 Len(hourlyDispatch)))

\* the object handed to setResults
SetResults(d, costs, totalAnnualCost, annualH2Production, electrolyzer) ==
    [published |-> TRUE,
     lcoh |-> LcohQuotient(totalAnnualCost, annualH2Production),
     totalAnnualCost |-> totalAnnualCost,
     annualH2Production |-> annualH2Production,
     costBreakdown |-> CostBreakdown(costs, totalAnnualCost),
     energyStats |-> EnergyStats(d, electrolyzer),
     energyMix |-> EnergyMix(d.energyBySource, d.totalEnergyUsed),
     monthlyData |-> MonthlyData(d.hourlyDispatch, 0, 0),
     hourlyDispatch |-> d.hourlyDispatch]

\* the part of the callback after the cost totals
ResultsOfCosts(d, costs, electrolyzer) ==
    SetResults(d, costs, TotalAnnualCost(costs),
               AnnualH2Production(d.totalEnergyUsed, electrolyzer), electrolyzer)

\* the part of the callback after the hour loop
ResultsOfDispatch(updatedSources, electrolyzer, financial, d) ==
    ResultsOfCosts(d,
                   AnnualCosts(updatedSources, electrolyzer, d.energyBySource,
                               CapitalRecoveryFactor(financial)),
                   electrolyzer)

\* the timer callback: sort, hour loop, costs, setResults
ComputeResults(updatedSources, electrolyzer, financial) ==
    ResultsOfDispatch(updatedSources, electrolyzer, financial,
                      DispatchHours(SortSources(updatedSources), HoursPerYear,
                                    electrolyzer, financial))

(***************************************************************************)
(* Profile normalisation of the two download handlers.                     *)
(***************************************************************************)
\* Math.round(longitude / 15) for a longitude in whole degrees
calculateTimezoneOffset(longitude) == (2 * longitude + 15) \div 30

\* the index read when the first day has no day before it and the last day
\* none after it
LocalIndex_NoYearWrap(originalIndex, offset) ==
    LET day == originalIndex \div HoursPerDay
        hour == originalIndex % HoursPerDay
        shifted == hour - offset
        localHour == IF shifted < 0 THEN shifted + HoursPerDay
                     ELSE IF shifted >= HoursPerDay THEN shifted - HoursPerDay
                     ELSE shifted
        localDay == IF shifted < 0
                    THEN (IF day - 1 < 0 THEN 0 ELSE day - 1)
                    ELSE IF shifted >= HoursPerDay
                    THEN (IF day + 1 >= DaysPerYear THEN DaysPerYear - 1 ELSE day + 1)
                    ELSE day
    IN  localDay * HoursPerDay + localHour

\* the index read for slot originalIndex = day * HoursPerDay + hour
LocalIndex(originalIndex, offset) ==
    LET day == originalIndex \div HoursPerDay
        hour == originalIndex % HoursPerDay
        shifted == hour - offset
        localHour == IF shifted < 0 THEN shifted + HoursPerDay
                     ELSE IF shifted >= HoursPerDay THEN shifted - HoursPerDay
                     ELSE shifted
        localDay == IF shifted < 0
                    THEN (IF day - 1 < 0 THEN DaysPerYear - 1 ELSE day - 1)
                    ELSE IF shifted >= HoursPerDay
                    THEN (IF day + 1 >= DaysPerYear THEN 0 ELSE day + 1)
                    ELSE day
    IN  localDay * HoursPerDay + localHour

applyTimezoneCorrection(hourlyData, offset) ==
    LET length == Len(hourlyData)
    IN  IF offset = 0 THEN hourlyData
        ELSE [i \in 1..length |->
                LET originalIndex == i - 1
                    localIndex == LocalIndex(originalIndex, offset)
                IN  IF originalIndex < DaysPerYear * HoursPerDay /\ localIndex < length
                    THEN (IF localIndex >= 0 THEN hourlyData[localIndex + 1] ELSE Undefined)
                    ELSE Zero]

\* Math.max(0, Math.min(1, capacityFactor))
Clamp(capacityFactor) == MathMax(Zero, MathMin(One, capacityFactor))

\* the series stored as it was received
FullYearData_AsGiven(data) == data

\* new Array(8760).fill(0) overwritten by the first 8760 entries of data
FullYearData(data) ==
    LET length == Len(data)
    IN  [i \in 1..HoursPerYear |-> IF i <= length THEN data[i] ELSE Zero]

\* the profile fetchPVGISData stores for the hourly P values of a response
NormalizePVGIS(hourlyP, longitude) ==
    LET hourlyData == [i \in 1..Len(hourlyP) |-> Clamp(Div(hourlyP[i], Int2Num(1000)))]
    IN  FullYearData(applyTimezoneCorrection(hourlyData,
                                             calculateTimezoneOffset(longitude)))

\* the profile fetchRenewableNinjaData stores for the electricity values of a
\* response
NormalizeNinja(electricity) ==
    LET hourlyData == [i \in 1..Len(electricity) |->
                          IF electricity[i] # Undefined THEN Clamp(electricity[i])
                          ELSE Zero]
    IN  FullYearData(hourlyData)

(***************************************************************************)
(* State of the component.                                                 *)
(***************************************************************************)
VARIABLES
    objs,                 \* the source objects: reference (1..n) -> fields
    powerSources,         \* inputs.powerSources: the references of the list
    electrolyzer,         \* inputs.electrolyzer
    financial,            \* inputs.financial
    renewableNinjaToken,  \* inputs.apis.renewableNinjaToken
    results,              \* results (NoResults while null)
    calculating,
    selectedPowerSource,  \* 0-based index, as in the source
    isDownloading,
    apiError,
    fetch,                \* the request in flight and what its callbacks captured
    timer,                \* the pending setTimeout callback and its updatedSources
    crashed,              \* a state updater threw: the component is unmounted
    steps,                \* user events so far
    requested,            \* the configuration in force at the last Calculate click
    response,             \* the payload last handed to a success callback
    computedFrom          \* the configuration the last timer callback computed from

vars == <<objs, powerSources, electrolyzer, financial, renewableNinjaToken, results,
          calculating, selectedPowerSource, isDownloading, apiError, fetch, timer,
          crashed, steps, requested, response, computedFrom>>

NoLocation == [set |-> FALSE, lat |-> 0, lng |-> 0]
Location(lat, lng) == [set |-> TRUE, lat |-> lat, lng |-> lng]
\* { lat: 40, lng: -75 } of the source, the longitude scaled to the modelled day
DefaultLocation == Location(40, -15)
\* electricityPrice and lcoe given to a grid source: 0.05
DefaultPrice == Rat(1, 20)
\* the year of the data given to a solar or wind source: 2022
DefaultYear == Int2Num(2022)

NoFetch == [active |-> FALSE, kind |-> "none", sourceIndex |-> 0, source |-> 0,
            location |-> NoLocation, year |-> Undefined]
NoTimer == [pending |-> FALSE, updatedSources |-> <<>>]

Range(s) == {s[i] : i \in 1..Len(s)}

\* the fields of the sources a list of references points to
Deref(o, refs) == [i \in 1..Len(refs) |-> o[refs[i]]]

\* The state's heap in canonical numbering: the objects of the list first, in
\* list order, then those only the timer holds, then the one only the fetch
\* holds; objects nothing refers to are dropped.
Commit(o, ps, t, f) ==
    LET inList(id) == id \in Range(ps)
        onlyTimer == SelectSeq(t.updatedSources, LAMBDA id : ~inList(id))
        base == ps \o onlyTimer
        onlyFetch == IF f.active /\ f.source \notin Range(base) THEN <<f.source>> ELSE <<>>
        ord == base \o onlyFetch
        ren == [id \in Range(ord) |-> CHOOSE i \in 1..Len(ord) : ord[i] = id]
    IN  /\ objs' = [i \in 1..Len(ord) |-> o[ord[i]]]
        /\ powerSources' = [i \in 1..Len(ps) |-> ren[ps[i]]]
        /\ timer' = [t EXCEPT !.updatedSources =
                        [i \in 1..Len(t.updatedSources) |-> ren[t.updatedSources[i]]]]
        /\ fetch' = IF f.active THEN [f EXCEPT !.source = ren[f.source]] ELSE f

(***************************************************************************)
(* Values the user events draw from (amounts are scaled down).             *)
(***************************************************************************)
SourceTypes == {"grid", "solar", "wind"}
CapacityValues == {Zero, One}
CapexValues == {Zero, One}
OpexValues == {Zero}
PriceValues == {Zero, Rat(1, 10)}
LocationValues == {Location(40, 15), Location(0, 15)}
ElectrolyzerEdits ==
    {<<"capacity", One>>, <<"efficiency", Int2Num(100)>>, <<"capex", Int2Num(3)>>,
     <<"opex", Int2Num(2)>>, <<"baseConsumption", Int2Num(40)>>}
FinancialEdits ==
    {<<"returnRate", Zero>>, <<"lifetime", 1>>, <<"capacityFactor", Int2Num(50)>>}
\* a token is the sequence of its characters, each the number of its UTF-16
\* code unit: the empty string, " \u00A0\f" (a space, a no-break space, a
\* form feed) and "token"
NoToken == <<>>
BlankToken == <<32, 160, 12>>
SomeToken == <<116, 111, 107, 101, 110>>
TokenValues == {NoToken, BlankToken, SomeToken}
\* parseInt of the year input: a year, or NaN for an input without digits
YearValues == {Int2Num(2021), NaN}
\* hourly P values (W per kWp) of a PVGIS response
PVGISResponses ==
    {[i \in 1..HoursPerYear |-> Int2Num(1000)],
     [i \in 1..HoursPerYear |-> IF i % 2 = 1 THEN Int2Num(500) ELSE Zero],
     [i \in 1..HoursPerYear |-> Zero]}
\* hourly electricity values of a Renewable Ninja response: steady, every
\* other hour, and a windy first day followed by calm ones
NinjaResponses ==
    {[i \in 1..HoursPerYear |-> One],
     [i \in 1..HoursPerYear |-> IF i % 2 = 1 THEN Zero ELSE Rat(1, 2)],
     [i \in 1..HoursPerYear |-> IF i <= HoursPerDay THEN One ELSE Rat(1, 4)]}
FailureKinds == {"status", "format", "network"}
\* payloads a provider can answer with: the full-year responses, a series
\* with a missing P, one shorter than the year with a negative and an
\* above-rated sample, one longer than the year, and an empty list
PVGISPayloads ==
    PVGISResponses \cup
    {[i \in 1..HoursPerYear |-> IF i = 1 THEN Undefined ELSE Int2Num(500)],
     [i \in 1..(HoursPerYear - 2) |-> IF i = 1 THEN Int2Num(-500) ELSE Int2Num(2000)],
     [i \in 1..(HoursPerYear + 1) |-> Int2Num(250)],
     <<>>}
NinjaPayloads ==
    NinjaResponses \cup
    {[i \in 1..(HoursPerYear - 1) |->
         IF i = 1 THEN Undefined ELSE IF i = 2 THEN Int2Num(2) ELSE Int2Num(-1)],
     [i \in 1..(HoursPerYear + 1) |-> Rat(1, 4)],
     <<>>}
NoResponse == <<>>

(***************************************************************************)
(* Initial state: the useState initial values.                             *)
(***************************************************************************)
InitSources ==
    <<[type |-> "grid", capacity |-> Int2Num(2), capex |-> Zero, opex |-> Int2Num(4),
       electricityPrice |-> DefaultPrice, lcoe |-> DefaultPrice,
       timeSeriesData |-> NoSeries, location |-> NoLocation, year |-> Undefined],
      [type |-> "solar", capacity |-> Int2Num(3), capex |-> Int2Num(2), opex |-> Int2Num(1),
       electricityPrice |-> Undefined, lcoe |-> Null,
       timeSeriesData |-> NoSeries, location |-> Location(39, -15),
       year |-> DefaultYear],
      [type |-> "wind", capacity |-> Int2Num(2), capex |-> Int2Num(3), opex |-> Int2Num(1),
       electricityPrice |-> Undefined, lcoe |-> Null,
       timeSeriesData |-> NoSeries, location |-> Location(42, -15),
       year |-> DefaultYear]>>

InitElectrolyzer ==
    [capacity |-> Int2Num(2), capex |-> Int2Num(2), opex |-> Int2Num(1),
     efficiency |-> Int2Num(70), baseConsumption |-> Int2Num(50)]

InitFinancial == [returnRate |-> Int2Num(8), lifetime |-> 2, capacityFactor |-> Int2Num(90)]

Snapshot(o, refs, el, fin) ==
    [sources |-> Deref(o, refs), electrolyzer |-> el, financial |-> fin]

Init ==
    /\ objs = InitSources
    /\ powerSources = <<1, 2, 3>>
    /\ electrolyzer = InitElectrolyzer
    /\ financial = InitFinancial
    /\ renewableNinjaToken = NoToken
    /\ results = NoResults
    /\ calculating = FALSE
    /\ selectedPowerSource = 0
    /\ isDownloading = FALSE
    /\ apiError = ""
    /\ fetch = NoFetch
    /\ timer = NoTimer
    /\ crashed = FALSE
    /\ steps = 0
    /\ requested = Snapshot(<<>>, <<>>, InitElectrolyzer, InitFinancial)
    /\ response = NoResponse
    /\ computedFrom = requested

(***************************************************************************)
(* handleInputChange                                                       *)
(***************************************************************************)
\* category 'powerSources': the source after newInputs.powerSources[index][field] = value
\* and the rules that follow it
handleInputChangeSource(source, field, value, fin) ==
    LET s1 == [source EXCEPT ![field] = value]
        s2 == IF field = "type"
              THEN (IF value = "grid"
                    THEN [s1 EXCEPT !.electricityPrice = DefaultPrice,
                                    !.lcoe = DefaultPrice,
                                    !.timeSeriesData = NoSeries]
                    ELSE [s1 EXCEPT !.electricityPrice = Null,
                                    !.lcoe = Null,
                                    !.timeSeriesData = NoSeries,
                                    !.location = IF s1.location.set THEN s1.location
                                                 ELSE DefaultLocation,
                                    !.year = IF Falsy(s1.year) THEN DefaultYear
                                             ELSE s1.year])
              ELSE s1
        s3 == IF field = "electricityPrice" /\ s2.type = "grid"
              THEN [s2 EXCEPT !.lcoe = value]
              ELSE s2
    IN  IF field \in {"capex", "opex"} /\ s3.type # "grid"
        THEN (IF s3.timeSeriesData # NoSeries
              THEN [s3 EXCEPT !.lcoe = calculateLCOE(s3, s3.timeSeriesData, fin)]
              ELSE [s3 EXCEPT !.lcoe = Null])
        ELSE s3

\* category 'financial': every source object of the list after the edit
RecomputeAll(o, ps, field, fin) ==
    IF field \in {"returnRate", "lifetime"}
    THEN [id \in DOMAIN o |->
            IF id \in Range(ps) /\ o[id].type # "grid" /\ o[id].timeSeriesData # NoSeries
            THEN [o[id] EXCEPT !.lcoe = calculateLCOE(o[id], o[id].timeSeriesData, fin)]
            ELSE o[id]]
    ELSE o

Sel == selectedPowerSource + 1
SelectedSource == objs[powerSources[Sel]]
UserEvent == ~crashed /\ steps < MaxSteps /\ steps' = steps + 1
    /\ UNCHANGED <<response, computedFrom>>

\* an edit of one field of the selected source (capacity, capex, opex, type,
\* year)
EditSource(field, value) ==
    /\ UserEvent
    /\ Commit([objs EXCEPT ![powerSources[Sel]] =
                  handleInputChangeSource(@, field, value, financial)],
              powerSources, timer, fetch)
    /\ UNCHANGED <<electrolyzer, financial, renewableNinjaToken, results, calculating,
                   selectedPowerSource, isDownloading, apiError, crashed, requested>>

ChangeType == \E value \in SourceTypes :
    /\ value # SelectedSource.type
    /\ EditSource("type", value)

ChangeCapacity == \E value \in CapacityValues : EditSource("capacity", value)
ChangeCapex == \E value \in CapexValues : EditSource("capex", value)
ChangeOpex == \E value \in OpexValues : EditSource("opex", value)

\* the year input, rendered for a solar or wind selection
ChangeYear == \E value \in YearValues :
    /\ SelectedSource.type # "grid"
    /\ EditSource("year", value)

\* the price input of a grid source: handleInputChange for electricityPrice,
\* then for lcoe
ChangeElectricityPrice == \E value \in PriceValues :
    /\ UserEvent
    /\ SelectedSource.type = "grid"
    /\ Commit([objs EXCEPT ![powerSources[Sel]] =
                  handleInputChangeSource(
                      handleInputChangeSource(@, "electricityPrice", value, financial),
                      "lcoe", value, financial)],
              powerSources, timer, fetch)
    /\ UNCHANGED <<electrolyzer, financial, renewableNinjaToken, results, calculating,
                   selectedPowerSource, isDownloading, apiError, crashed, requested>>

EditElectrolyzer == \E e \in ElectrolyzerEdits :
    /\ UserEvent
    /\ electrolyzer' = [electrolyzer EXCEPT ![e[1]] = e[2]]
    /\ UNCHANGED <<objs, powerSources, financial, renewableNinjaToken, results,
                   calculating, selectedPowerSource, isDownloading, apiError, fetch,
                   timer, crashed, requested>>

EditFinancial == \E e \in FinancialEdits :
    LET fin == [financial EXCEPT ![e[1]] = e[2]]
    IN  /\ UserEvent
        /\ financial' = fin
        /\ Commit(RecomputeAll(objs, powerSources, e[1], fin), powerSources, timer, fetch)
        /\ UNCHANGED <<electrolyzer, renewableNinjaToken, results, calculating,
                       selectedPowerSource, isDownloading, apiError, crashed, requested>>

\* the token input is rendered only while the selected source is wind
EditToken == \E value \in TokenValues :
    /\ UserEvent
    /\ SelectedSource.type = "wind"
    /\ value # renewableNinjaToken
    /\ renewableNinjaToken' = value
    /\ UNCHANGED <<objs, powerSources, electrolyzer, financial, results, calculating,
                   selectedPowerSource, isDownloading, apiError, fetch, timer, crashed,
                   requested>>

(***************************************************************************)
(* The source list.                                                        *)
(***************************************************************************)
SelectPowerSource == \E index \in 0..(Len(powerSources) - 1) :
    /\ UserEvent
    /\ index # selectedPowerSource
    /\ selectedPowerSource' = index
    /\ UNCHANGED <<objs, powerSources, electrolyzer, financial, renewableNinjaToken,
                   results, calculating, isDownloading, apiError, fetch, timer, crashed,
                   requested>>

NewSource(type) ==
    [type |-> type,
     capacity |-> Int2Num(2),
     capex |-> IF type = "grid" THEN Zero ELSE Int2Num(2),
     opex |-> IF type = "grid" THEN Int2Num(4) ELSE Int2Num(1),
     electricityPrice |-> IF type = "grid" THEN DefaultPrice ELSE Null,
     lcoe |-> IF type = "grid" THEN DefaultPrice ELSE Null,
     timeSeriesData |-> NoSeries,
     location |-> IF type = "grid" THEN NoLocation ELSE DefaultLocation,
     year |-> IF type = "grid" THEN Undefined ELSE DefaultYear]

addPowerSource == \E type \in SourceTypes :
    LET id == Len(objs) + 1
    IN  /\ UserEvent
        /\ Len(powerSources) < MaxSources
        /\ Commit([i \in 1..id |-> IF i = id THEN NewSource(type) ELSE objs[i]],
                  Append(powerSources, id), timer, fetch)
        /\ selectedPowerSource' = Len(powerSources)
        /\ UNCHANGED <<electrolyzer, financial, renewableNinjaToken, results, calculating,
                       isDownloading, apiError, crashed, requested>>

\* a removal that leaves the selection where it was
removePowerSource_KeepsSelection ==
    LET index == selectedPowerSource
    IN  /\ UserEvent
        /\ Len(powerSources) > 1
        /\ Commit(objs,
                  [i \in 1..(Len(powerSources) - 1) |->
                      IF i <= index THEN powerSources[i] ELSE powerSources[i + 1]],
                  timer, fetch)
        /\ UNCHANGED <<electrolyzer, financial, renewableNinjaToken, results, calculating,
                       selectedPowerSource, isDownloading, apiError, crashed, requested>>

\* removePowerSource(selectedPowerSource)
removePowerSource ==
    LET index == selectedPowerSource
    IN  /\ UserEvent
        /\ Len(powerSources) > 1
        /\ Commit(objs,
                  [i \in 1..(Len(powerSources) - 1) |->
                      IF i <= index THEN powerSources[i] ELSE powerSources[i + 1]],
                  timer, fetch)
        /\ selectedPowerSource' =
              IF selectedPowerSource >= Len(powerSources) - 1
              THEN Len(powerSources) - 2
              ELSE selectedPowerSource
        /\ UNCHANGED <<electrolyzer, financial, renewableNinjaToken, results, calculating,
                       isDownloading, apiError, crashed, requested>>

\* a location change that clears the profile and keeps the lcoe
handleMapLocationChange_KeepsLcoe == \E loc \in LocationValues :
    /\ UserEvent
    /\ SelectedSource.type # "grid"
    /\ Commit([objs EXCEPT ![powerSources[Sel]] =
                  [@ EXCEPT !.location = loc, !.timeSeriesData = NoSeries]],
              powerSources, timer, fetch)
    /\ UNCHANGED <<electrolyzer, financial, renewableNinjaToken, results, calculating,
                   selectedPowerSource, isDownloading, apiError, crashed, requested>>

\* a map click or a coordinate input, offered for a non-grid selection
handleMapLocationChange == \E loc \in LocationValues :
    /\ UserEvent
    /\ SelectedSource.type # "grid"
    /\ Commit([objs EXCEPT ![powerSources[Sel]] =
                  [@ EXCEPT !.location = loc, !.timeSeriesData = NoSeries, !.lcoe = Null]],
              powerSources, timer, fetch)
    /\ UNCHANGED <<electrolyzer, financial, renewableNinjaToken, results, calculating,
                   selectedPowerSource, isDownloading, apiError, crashed, requested>>

(***************************************************************************)
(* Profile downloads.                                                      *)
(***************************************************************************)
\* `!source.location || !source.location.lat || !source.location.lng`
InvalidLocation(source) ==
    ~source.location.set \/ source.location.lat = 0 \/ source.location.lng = 0

\* String.prototype.trim: the string without its leading and trailing
\* white space and line terminators.  These are the code units U+0009 (tab),
\* U+000A (line feed), U+000B (vertical tab), U+000C (form feed), U+000D
\* (carriage return), U+0020 (space), U+00A0 (no-break space), U+1680,
\* U+2000 .. U+200A, U+2028, U+2029, U+202F, U+205F, U+3000 and U+FEFF
WhiteSpace ==
    (9..13) \cup {32, 160, 5760} \cup (8192..8202)
        \cup {8232, 8233, 8239, 8287, 12288, 65279}

RECURSIVE TrimStart(_)
TrimStart(string) ==
    IF string # <<>> /\ Head(string) \in WhiteSpace THEN TrimStart(Tail(string))
    ELSE string

RECURSIVE TrimEnd(_)
TrimEnd(string) ==
    IF string # <<>> /\ string[Len(string)] \in WhiteSpace
    THEN TrimEnd(SubSeq(string, 1, Len(string) - 1))
    ELSE string

Trim(string) == TrimEnd(TrimStart(string))

\* `!token || token.trim() === ""`
MissingToken(token) == token = <<>> \/ Trim(token) = <<>>

\* the guard of either handler that ends it before a request is issued
EarlyReturn(kind, source, token) ==
    IF kind = "pvgis" THEN InvalidLocation(source) ELSE MissingToken(token)

EarlyMessage(kind) ==
    IF kind = "pvgis" THEN "invalid location" ELSE "missing token"

\* `source.year || 2022`: the year the request asks for
RequestYear(source) == IF Falsy(source.year) THEN DefaultYear ELSE source.year

\* The Download button: fetchPVGISData(selectedPowerSource) for a solar
\* selection, fetchRenewableNinjaData(selectedPowerSource) for a wind one.
\* The button is disabled while isDownloading and, for wind, without a token.
StartDownload ==
    LET source == SelectedSource
        kind == IF source.type = "solar" THEN "pvgis" ELSE "ninja"
    IN  /\ UserEvent
        /\ source.type # "grid"
        /\ ~isDownloading
        /\ source.type = "wind" => ~MissingToken(renewableNinjaToken)
        /\ IF EarlyReturn(kind, source, renewableNinjaToken)
           THEN /\ apiError' = EarlyMessage(kind)
                /\ isDownloading' = FALSE
                /\ UNCHANGED <<objs, powerSources, timer, fetch>>
           ELSE /\ apiError' = ""
                /\ isDownloading' = TRUE
                /\ Commit(objs, powerSources, timer,
                          [active |-> TRUE, kind |-> kind,
                           sourceIndex |-> selectedPowerSource,
                           source |-> powerSources[Sel],
                           location |-> source.location,
                           year |-> RequestYear(source)])
        /\ UNCHANGED <<electrolyzer, financial, renewableNinjaToken, results, calculating,
                       selectedPowerSource, crashed, requested>>

\* the setInputs updater of the success callback: the profile is stored on
\* the source and the lcoe computed from it
Downloaded(source, fullYearData, fin) ==
    LET target == [source EXCEPT !.timeSeriesData = fullYearData]
    IN  [target EXCEPT !.lcoe = calculateLCOE(target, fullYearData, fin)]

\* the profile the success callback builds from a response
FetchedProfile(kind, raw, source) ==
    IF kind = "pvgis" THEN NormalizePVGIS(raw, source.location.lng)
    ELSE NormalizeNinja(raw)

Responses(kind) == IF kind = "pvgis" THEN PVGISPayloads ELSE NinjaPayloads

\* The request resolves with a well-formed payload: the setInputs updater
\* writes the profile and its lcoe at sourceIndex of the list as it is now.
\* Without a source at that index the updater throws.
FetchSucceeds == \E raw \in Responses(fetch.kind) :
    LET fullYearData == FetchedProfile(fetch.kind, raw, objs[fetch.source])
        index == fetch.sourceIndex + 1
    IN  /\ fetch.active
        /\ ~crashed
        /\ IF index <= Len(powerSources)
           THEN /\ Commit([objs EXCEPT ![powerSources[index]] =
                              Downloaded(@, fullYearData, financial)],
                          powerSources, timer, NoFetch)
                /\ UNCHANGED crashed
           ELSE /\ Commit(objs, powerSources, timer, NoFetch)
                /\ crashed' = TRUE
        /\ isDownloading' = FALSE
        /\ response' = raw
        /\ UNCHANGED <<electrolyzer, financial, renewableNinjaToken, results, calculating,
                       selectedPowerSource, apiError, steps, requested, computedFrom>>

\* a catch handler that also clears the profile and lcoe of the source the
\* request was started for
FetchFails_ClearsTarget == \E failure \in FailureKinds :
    /\ fetch.active
    /\ ~crashed
    /\ apiError' = failure
    /\ isDownloading' = FALSE
    /\ Commit([objs EXCEPT ![fetch.source] =
                  [@ EXCEPT !.timeSeriesData = NoSeries, !.lcoe = Null]],
              powerSources, timer, NoFetch)
    /\ UNCHANGED <<electrolyzer, financial, renewableNinjaToken, results, calculating,
                   selectedPowerSource, crashed, steps, requested, response,
                   computedFrom>>

\* a catch handler that reports the error and leaves the downloading flag set
FetchFails_StaysDownloading == \E failure \in FailureKinds :
    /\ fetch.active
    /\ ~crashed
    /\ apiError' = failure
    /\ UNCHANGED isDownloading
    /\ Commit(objs, powerSources, timer, NoFetch)
    /\ UNCHANGED <<electrolyzer, financial, renewableNinjaToken, results, calculating,
                   selectedPowerSource, crashed, steps, requested, response,
                   computedFrom>>

\* The request fails: a non-success status, a payload of the wrong shape, or
\* a rejected request.  The catch handler reports it.
FetchFails == \E failure \in FailureKinds :
    /\ fetch.active
    /\ ~crashed
    /\ apiError' = failure
    /\ isDownloading' = FALSE
    /\ Commit(objs, powerSources, timer, NoFetch)
    /\ UNCHANGED <<electrolyzer, financial, renewableNinjaToken, results, calculating,
                   selectedPowerSource, crashed, steps, requested, response,
                   computedFrom>>

(***************************************************************************)
(* calculateLCOH                                                           *)
(***************************************************************************)
canCalculate ==
    \A i \in 1..Len(powerSources) :
        LET source == objs[powerSources[i]]
        IN  source.type # "grid" =>
                ~(source.timeSeriesData = NoSeries /\ Falsy(source.lcoe))

\* `source.type !== 'grid' && !source.lcoe && source.timeSeriesData`
NeedsLcoe(source) ==
    source.type # "grid" /\ Falsy(source.lcoe) /\ source.timeSeriesData # NoSeries

\* the Calculate button: the map over the sources, then the timer is set
calculateLCOH ==
    LET updated == [id \in DOMAIN objs |->
                      IF id \in Range(powerSources) /\ NeedsLcoe(objs[id])
                      THEN [objs[id] EXCEPT !.lcoe =
                              calculateLCOE(objs[id], objs[id].timeSeriesData, financial)]
                      ELSE objs[id]]
    IN  /\ UserEvent
        /\ ~calculating
        /\ canCalculate
        /\ calculating' = TRUE
        /\ Commit(updated, powerSources,
                  [pending |-> TRUE, updatedSources |-> powerSources], fetch)
        /\ requested' = Snapshot(updated, powerSources, electrolyzer, financial)
        /\ UNCHANGED <<electrolyzer, financial, renewableNinjaToken, results,
                       selectedPowerSource, isDownloading, apiError, crashed>>

\* the setTimeout callback, 2000 ms later: it reads the objects updatedSources
\* refers to and the electrolyzer and financial objects as they are now
TimerFires ==
    /\ timer.pending
    /\ ~crashed
    /\ results' = ComputeResults(Deref(objs, timer.updatedSources), electrolyzer, financial)
    /\ computedFrom' = Snapshot(objs, timer.updatedSources, electrolyzer, financial)
    /\ calculating' = FALSE
    /\ Commit(objs, powerSources, NoTimer, fetch)
    /\ UNCHANGED <<electrolyzer, financial, renewableNinjaToken, selectedPowerSource,
                   isDownloading, apiError, crashed, steps, requested, response>>

Next ==
    \/ SelectPowerSource
    \/ addPowerSource
    \/ removePowerSource
    \/ ChangeType
    \/ ChangeCapacity
    \/ ChangeCapex
    \/ ChangeOpex
    \/ ChangeYear
    \/ ChangeElectricityPrice
    \/ handleMapLocationChange
    \/ EditElectrolyzer
    \/ EditFinancial
    \/ EditToken
    \/ StartDownload
    \/ FetchSucceeds
    \/ FetchFails
    \/ calculateLCOH
    \/ TimerFires

Spec == Init /\ [][Next]_vars

\* The session in which every request that was issued is answered.  The
\* promise of fetch() settles and one of its callbacks runs: a step that ends
\* the request in flight (a FetchSucceeds or a FetchFails step, the only
\* steps that do, and possible whenever one of them is).
RequestSettles == fetch.active /\ ~crashed /\ fetch' = NoFetch
SpecSettling == Init /\ [][Next]_vars /\ WF_fetch(RequestSettles)

(***************************************************************************)
(* The engine on its own: the run started on every configuration of a      *)
(* bounded family.  Each is a state the component reaches by adding,       *)
(* editing and downloading: a grid source carries its price as lcoe, a     *)
(* solar or wind source a downloaded profile and the lcoe computed from it.*)
(* Two user events are left, so two runs follow one another.               *)
(***************************************************************************)
GridVariants ==
    {[NewSource("grid") EXCEPT !.capacity = c, !.electricityPrice = p, !.lcoe = p] :
        c \in {One, Int2Num(2), Rat(1, 25)}, p \in {Zero, DefaultPrice}}

SolarVariants ==
    {Downloaded([NewSource("solar") EXCEPT !.capacity = c, !.capex = cost[1],
                                           !.opex = cost[2]],
                NormalizePVGIS(raw, DefaultLocation.lng), InitFinancial) :
        c \in {Zero, Int2Num(3)},
        cost \in {<<Zero, Zero>>, <<Int2Num(2), One>>},
        raw \in PVGISResponses}

WindVariants ==
    {Downloaded([NewSource("wind") EXCEPT !.capacity = c, !.capex = Int2Num(3)],
                NormalizeNinja(raw), InitFinancial) :
        c \in {Int2Num(2), Rat(1, 25)},
        raw \in NinjaResponses}

EngineSources == GridVariants \cup SolarVariants \cup WindVariants

EngineLists ==
    UNION {[1..n -> EngineSources] : n \in 1..MaxEngineSources}

InitEngine ==
    /\ objs \in EngineLists
    /\ powerSources = [i \in 1..Len(objs) |-> i]
    /\ electrolyzer \in {[InitElectrolyzer EXCEPT !.capacity = c] :
                           c \in {One, Int2Num(2), Rat(11, 100)}}
    /\ financial = InitFinancial
    /\ renewableNinjaToken = SomeToken
    /\ results = NoResults
    /\ calculating = FALSE
    /\ selectedPowerSource = 0
    /\ isDownloading = FALSE
    /\ apiError = ""
    /\ fetch = NoFetch
    /\ timer = NoTimer
    /\ crashed = FALSE
    /\ steps = MaxSteps - 2
    /\ requested = Snapshot(<<>>, <<>>, electrolyzer, financial)
    /\ response = NoResponse
    /\ computedFrom = requested

NextEngine ==
    \/ calculateLCOH
    \/ TimerFires

SpecEngine == InitEngine /\ [][NextEngine]_vars

(***************************************************************************)
(* The session after the profiles of the initial solar and wind sources    *)
(* were downloaded, the solar one at its initial capacity or at a capacity *)
(* of 0, with two user events left.                                        *)
(***************************************************************************)
InitLoaded ==
    /\ objs \in {<<InitSources[1],
                   Downloaded([InitSources[2] EXCEPT !.capacity = c],
                              NormalizePVGIS(rawS, InitSources[2].location.lng),
                              InitFinancial),
                   Downloaded(InitSources[3], NormalizeNinja(rawW), InitFinancial)>> :
                 c \in {InitSources[2].capacity, Zero},
                 rawS \in PVGISResponses, rawW \in NinjaResponses}
    /\ powerSources = <<1, 2, 3>>
    /\ electrolyzer = InitElectrolyzer
    /\ financial = InitFinancial
    /\ renewableNinjaToken = SomeToken
    /\ results = NoResults
    /\ calculating = FALSE
    /\ selectedPowerSource \in 0..2
    /\ isDownloading = FALSE
    /\ apiError = ""
    /\ fetch = NoFetch
    /\ timer = NoTimer
    /\ crashed = FALSE
    /\ steps = MaxSteps - 2
    /\ requested = Snapshot(<<>>, <<>>, InitElectrolyzer, InitFinancial)
    /\ response = NoResponse
    /\ computedFrom = requested

SpecLoaded == InitLoaded /\ [][Next]_vars

(***************************************************************************)
(* Vocabulary of the properties.  A published result is read against the   *)
(* configuration in force when its run was requested.                      *)
(***************************************************************************)
Published == results.published
ReqCount == Len(requested.sources)
ReqSource(i) == requested.sources[i]
\* a dispatchable source, as the claims read it: one with a non-null lcoe
Dispatchable(source) == source.lcoe # Null
Positive(x) == Less(Zero, x)

\* the source is the only one of its type, so the dispatch records, which
\* carry the type alone, identify it
UniqueType(i) ==
    \A j \in 1..ReqCount : j # i => ReqSource(j).type # ReqSource(i).type

\* available power of requested source i in hour (0-based)
ReqAvailable(i, hour) == AvailablePower(ReqSource(i), hour, requested.financial)

HourRecord(hour) == results.hourlyDispatch[hour + 1]
HasRecord(hour, type) ==
    \E k \in 1..Len(HourRecord(hour).sources) : HourRecord(hour).sources[k].type = type
RecordOf(hour, type) ==
    LET recs == HourRecord(hour).sources
    IN  recs[CHOOSE k \in 1..Len(recs) : recs[k].type = type]
\* power counted as used / curtailed for a type in an hour: 0 without a record
UsedOf(hour, type) ==
    IF HasRecord(hour, type) THEN RecordOf(hour, type).powerUsed ELSE Zero
CurtailedOf(hour, type) ==
    IF HasRecord(hour, type) THEN RecordOf(hour, type).powerCurtailed ELSE Zero

Hours == 0..(HoursPerYear - 1)

\* C1 (as claimed): in every hour of a published run with an electrolyzer
\* capacity > 0 the powerUsed of the hour's records sum to at most the
\* electrolyzer capacity, and dispatchPercentage is in [0, 1]; the run
\* records every hour of the year.
C1_DispatchWithinCapacity ==
    (Published /\ Positive(requested.electrolyzer.capacity)) =>
        /\ Len(results.hourlyDispatch) = HoursPerYear
        /\ \A hour \in Hours :
            LET recs == HourRecord(hour).sources
                total == SumTo([k \in 1..Len(recs) |-> recs[k].powerUsed], Len(recs))
            IN  /\ LessEq(total, requested.electrolyzer.capacity)
                /\ LessEq(Zero, HourRecord(hour).dispatchPercentage)
                /\ LessEq(HourRecord(hour).dispatchPercentage, One)

\* C2 (as claimed): for every hour and every dispatchable source, the power
\* counted as used plus the power counted as curtailed equals the power the
\* source had available, and the curtailed power is >= 0, also for sources
\* after the one that met the last of the demand.
C2_UsedPlusCurtailedIsAvailable ==
    Published =>
        \A hour \in Hours : \A i \in 1..ReqCount :
            (Dispatchable(ReqSource(i)) /\ UniqueType(i)) =>
                /\ Add(UsedOf(hour, ReqSource(i).type), CurtailedOf(hour, ReqSource(i).type))
                      = ReqAvailable(i, hour)
                /\ LessEq(Zero, CurtailedOf(hour, ReqSource(i).type))

\* the sources in merit order, and the power the hour's records count as
\* used for the source at a position of it: the records of an hour are those
\* of the sources the loop visited, in merit order, so the k-th record is
\* that of the k-th source that is not skipped
MeritOrder == SortSources(requested.sources)
VisitRank(p) == Cardinality({q \in 1..p : ~SkippedByDispatch(MeritOrder[q])})
UsedAt(hour, p) ==
    IF ~SkippedByDispatch(MeritOrder[p]) /\ Len(HourRecord(hour).sources) >= VisitRank(p)
    THEN HourRecord(hour).sources[VisitRank(p)].powerUsed
    ELSE Zero
AvailableAt(hour, p) == AvailablePower(MeritOrder[p], hour, requested.financial)

\* C3 (as claimed): the sort puts the sources with an lcoe first, in
\* ascending lcoe, and those without one last; and in every hour, for any two
\* dispatchable sources A and B with lcoe(A) < lcoe(B) that both have power
\* available, B gets power only if A was used in full.
C3_MeritOrder ==
    Published =>
        /\ \A i, j \in 1..Len(MeritOrder) : i < j =>
              /\ Dispatchable(MeritOrder[j]) => Dispatchable(MeritOrder[i])
              /\ Dispatchable(MeritOrder[j]) =>
                    LessEq(MeritOrder[i].lcoe, MeritOrder[j].lcoe)
        /\ \A hour \in Hours : \A a, b \in 1..Len(MeritOrder) :
              ( /\ Dispatchable(MeritOrder[a]) /\ Dispatchable(MeritOrder[b])
                /\ Less(MeritOrder[a].lcoe, MeritOrder[b].lcoe)
                /\ Positive(AvailableAt(hour, a)) /\ Positive(AvailableAt(hour, b))
                /\ Positive(UsedAt(hour, b)) )
              => UsedAt(hour, a) = AvailableAt(hour, a)

\* C4 (as claimed): only a null lcoe excludes a source.  So in every hour in
\* which some source with a finite lcoe >= 0 (0 included) has power
\* available, energy is dispatched; and a source with a null lcoe gets no
\* record.
C4_SkippedIffNullLcoe ==
    Published =>
        \A hour \in Hours :
            /\ (\E i \in 1..ReqCount :
                    /\ IsFinite(ReqSource(i).lcoe)
                    /\ LessEq(Zero, ReqSource(i).lcoe)
                    /\ Positive(ReqAvailable(i, hour)))
               => Positive(HourRecord(hour).energyUsed)
            /\ \A i \in 1..ReqCount :
                  (ReqSource(i).lcoe = Null /\ UniqueType(i))
                  => ~HasRecord(hour, ReqSource(i).type)

\* C5 (as claimed): a run whose annualH2Production is 0 is not published
\* with an lcoh of 0, Infinity or NaN unless an error is signalled.
C5_ZeroProductionIsSignalled ==
    ~( /\ Published
       /\ results.annualH2Production = Zero
       /\ results.lcoh \in {Zero, Infinity, NaN}
       /\ apiError = "" )

\* present value of the energy of a source with a profile is zero
ZeroEnergy(source, fin) ==
    PresentValue(Zero, AnnualEnergyProduction(source, source.timeSeriesData, fin),
                 Div(fin.returnRate, Int2Num(100)), fin.lifetime) = Zero

Invalid(x) == x.k \in {"inf", "nan"}

\* requested.sources with the lcoe of source i set to null
ReqWithNullLcoe(i) == [requested.sources EXCEPT ![i].lcoe = Null]

\* C6 (as claimed): calculateLCOE of a source with zero present value of
\* energy is infinite or NaN, never finite; and a run does not treat such an
\* lcoe as a valid one (the source gets no dispatch record) nor as a missing
\* one (the result differs from the result with that lcoe null).
C6_InvalidLcoeStaysInvalid ==
    Published =>
        \A i \in 1..ReqCount :
            LET source == ReqSource(i)
            IN  (source.type # "grid" /\ source.timeSeriesData # NoSeries
                 /\ ZeroEnergy(source, requested.financial)) =>
                    /\ Invalid(calculateLCOE(source, source.timeSeriesData,
                                             requested.financial))
                    /\ Invalid(source.lcoe) =>
                        /\ \A hour \in Hours : UniqueType(i) => ~HasRecord(hour, source.type)
                        /\ results # ComputeResults(ReqWithNullLcoe(i),
                                                    requested.electrolyzer,
                                                    requested.financial)

\* C7 (as claimed): curtailmentPercentage is curtailed / (used + curtailed)
\* * 100 when the denominator is > 0, and 0 when both totals are 0.
C7_CurtailmentPctGuarded ==
    Published =>
        LET used == results.energyStats.totalEnergyUsed
            curtailed == results.energyStats.totalCurtailedEnergy
        IN  results.energyStats.curtailmentPercentage =
                IF Positive(Add(used, curtailed))
                THEN Mul(Div(curtailed, Add(used, curtailed)), Int2Num(100))
                ELSE Zero

\* C8 (as claimed): when a run is requested, the lcoe of every non-grid
\* source with a profile equals calculateLCOE of its current fields, its
\* profile and the current financial parameters.
C8_LcoeFreshAtRun ==
    \A i \in 1..ReqCount :
        LET source == ReqSource(i)
        IN  (source.type # "grid" /\ source.timeSeriesData # NoSeries) =>
                source.lcoe = calculateLCOE(source, source.timeSeriesData,
                                            requested.financial)

\* C9 (as claimed): every grid source of the list has a non-null lcoe equal
\* to its electricityPrice and no timeSeriesData.
C9_GridLcoeIsPrice ==
    \A i \in 1..Len(powerSources) :
        LET source == objs[powerSources[i]]
        IN  source.type = "grid" =>
                /\ source.lcoe # Null
                /\ source.lcoe = source.electricityPrice
                /\ source.timeSeriesData = NoSeries

\* C10 (as claimed): the published result is the result of the
\* configuration in force when the run was requested.
C10_ResultOfRequestedConfiguration ==
    (Published /\ ~calculating) =>
        results = ComputeResults(requested.sources, requested.electrolyzer,
                                 requested.financial)

\* the fields of the sources of the list, in list order
ListedSources == Deref(objs, powerSources)

\* C11 (as claimed): a run leaves its inputs as they were: neither the step
\* that starts a run nor the step that computes its result changes a field
\* of a source of the list, of the electrolyzer or of the financial
\* parameters.
C11_RunLeavesInputsUnchanged ==
    [][(calculating' # calculating) =>
          /\ ListedSources' = ListedSources
          /\ electrolyzer' = electrolyzer
          /\ financial' = financial]_vars

\* the profile the handler of the source's type stores for a payload
StoredFor(source, raw) ==
    IF source.type = "solar" THEN NormalizePVGIS(raw, source.location.lng)
    ELSE NormalizeNinja(raw)

\* C12: every profile held by a source object has exactly HoursPerYear
\* entries, whatever the length of the series the provider answered with.
C12_ProfileHasYearLength ==
    \A id \in DOMAIN objs :
        objs[id].timeSeriesData # NoSeries =>
            Len(objs[id].timeSeriesData) = HoursPerYear

\* C12 witness: a provider answered with more samples than the year has and
\* a source of the list holds the first HoursPerYear of them
C12_Witness ==
    /\ Len(response) > HoursPerYear
    /\ \E i \in 1..Len(powerSources) :
          LET source == objs[powerSources[i]]
          IN  /\ source.type # "grid"
              /\ source.timeSeriesData = StoredFor(source, response)
              /\ Len(source.timeSeriesData) = HoursPerYear
              /\ source.timeSeriesData[HoursPerYear] # Zero

\* a provider answered with fewer samples than the year has and a source of
\* the list holds them followed by zeros
PaddedProfileStored ==
    /\ response # <<>>
    /\ Len(response) < HoursPerYear
    /\ \E i \in 1..Len(powerSources) :
          LET source == objs[powerSources[i]]
          IN  /\ source.type # "grid"
              /\ source.timeSeriesData = StoredFor(source, response)
              /\ source.timeSeriesData[1] # Zero
              /\ source.timeSeriesData[HoursPerYear] = Zero

\* C13 (as claimed): every entry of every profile held by a source object
\* is a capacity factor in [0, 1], whatever samples the provider answered
\* with.
C13_ProfileEntriesInUnitInterval ==
    \A id \in DOMAIN objs :
        \A i \in 1..Len(objs[id].timeSeriesData) :
            /\ LessEq(Zero, objs[id].timeSeriesData[i])
            /\ LessEq(objs[id].timeSeriesData[i], One)

\* the capacity factors of a payload, in the provider's hour order (UTC)
CapacityFactors(kind, raw) ==
    IF kind = "pvgis"
    THEN [i \in 1..Len(raw) |-> Clamp(Div(raw[i], Int2Num(1000)))]
    ELSE [i \in 1..Len(raw) |-> IF raw[i] # Undefined THEN Clamp(raw[i]) ELSE Zero]

\* a step in which a success callback stores a profile
ProfileStored ==
    /\ fetch.active /\ ~fetch'.active
    /\ apiError' = apiError
    /\ ~crashed'

\* the source the callback wrote to, as it is after the step
StoredOn == objs'[powerSources'[fetch.sourceIndex + 1]]

\* C14 (as claimed): the profile a success callback stores, for a solar and
\* for a wind source alike, is the provider's series shifted by
\* round(longitude / 15) hours of the source's longitude.
C14_StoredProfileIsShifted ==
    [][ProfileStored =>
          StoredOn.timeSeriesData =
              FullYearData(applyTimezoneCorrection(
                  CapacityFactors(fetch.kind, response'),
                  calculateTimezoneOffset(StoredOn.location.lng)))]_vars

\* a finite lcoe > 0
ValidLcoe(source) == IsFinite(source.lcoe) /\ Positive(source.lcoe)

\* C15 (as claimed): whenever no run is pending and some source of the list
\* has a valid lcoe, a run can be started, also when a non-grid source has
\* neither a profile nor an lcoe.
C15_RunStartsWithOneValidSource ==
    ( /\ ~calculating
      /\ ~crashed
      /\ \E i \in 1..Len(powerSources) : ValidLcoe(objs[powerSources[i]]) )
    => canCalculate

\* C16 (as claimed): when a request ends with an empty series as the
\* provider's answer, nothing is stored: every source of the list keeps its
\* timeSeriesData and lcoe (and every other field).
C16_EmptyProfileIsNotStored ==
    [][(fetch.active /\ ~fetch'.active /\ response' = <<>>) =>
          ListedSources' = ListedSources]_vars

\* latitude in [-90, 90] and longitude in [-180, 180]
InRange(location) ==
    /\ location.set
    /\ location.lat >= -90 /\ location.lat <= 90
    /\ location.lng >= -180 /\ location.lng <= 180

\* a Download click answered with the invalid-location message
LocationRejected == apiError' # apiError /\ apiError' = EarlyMessage("pvgis")

\* a Download click that issues a request
RequestIssued == ~fetch.active /\ fetch'.active

\* C17 (as claimed): a Download click is rejected with the invalid-location
\* message only for a location that is missing or out of range, and a request
\* is issued only for a location in range; latitude 0 and longitude 0 are in
\* range.
C17_RejectedIffOutOfRange ==
    [][ /\ LocationRejected => ~InRange(SelectedSource.location)
        /\ RequestIssued => InRange(SelectedSource.location) ]_vars

\* a step that ends a download attempt with an error message: an early
\* return of a handler or its catch
FetchFailed == apiError' # apiError /\ apiError' # ""

\* C18: a failed download attempt changes only the error message and the
\* downloading flag: every source of the list keeps its timeSeriesData and
\* lcoe (and its other fields), and the rest of the inputs, the result and
\* the selection are as before.
C18_FailedFetchChangesNoSource ==
    [][FetchFailed =>
          /\ ListedSources' = ListedSources
          /\ UNCHANGED <<electrolyzer, financial, renewableNinjaToken, results,
                         calculating, selectedPowerSource>>]_vars

\* C18 witness: the last request failed in its callbacks while a source of
\* the list held a downloaded profile
C18_Witness ==
    /\ apiError \in FailureKinds
    /\ ~isDownloading
    /\ \E i \in 1..Len(powerSources) :
          /\ objs[powerSources[i]].timeSeriesData # NoSeries
          /\ ~Falsy(objs[powerSources[i]].lcoe)

\* the power all dispatchable requested sources have available in an hour
TotalAvailable(hour) ==
    SumTo([i \in 1..ReqCount |->
              IF Dispatchable(ReqSource(i)) THEN ReqAvailable(i, hour) ELSE Zero],
          ReqCount)

\* C19 (as claimed): in a published run with an electrolyzer capacity > 0,
\* an hour whose total available power is at most the capacity has
\* energyUsed equal to that total and curtailedEnergy 0, and an hour whose
\* total available power is at least the capacity has dispatchPercentage 1.
C19_UnmetDemandIsNotCurtailment ==
    (Published /\ Positive(requested.electrolyzer.capacity)) =>
        \A hour \in Hours :
            /\ LessEq(TotalAvailable(hour), requested.electrolyzer.capacity) =>
                  /\ HourRecord(hour).energyUsed = TotalAvailable(hour)
                  /\ HourRecord(hour).curtailedEnergy = Zero
            /\ LessEq(requested.electrolyzer.capacity, TotalAvailable(hour)) =>
                  HourRecord(hour).dispatchPercentage = One

\* capacity in kW times a cost per kW times a factor, summed over all
\* requested sources in list order, plus the same for the electrolyzer
InstalledCost(field, factor) ==
    Add(SumTo([i \in 1..ReqCount |->
                  Mul(Mul(Mul(ReqSource(i).capacity, Int2Num(1000)), ReqSource(i)[field]),
                      factor)],
              ReqCount),
        Mul(Mul(Mul(requested.electrolyzer.capacity, Int2Num(1000)),
                requested.electrolyzer[field]),
            factor))

\* C20 (as claimed): in a published run, the capex amount is the capital
\* cost of all requested sources (skipped ones included) and of the
\* electrolyzer, each times the capital recovery factor, the opex amount is
\* their yearly operating cost,
\* totalAnnualCost is capex + opex + energy, every percentage is its amount
\* divided by totalAnnualCost times 100, and the three percentages sum to 100
\* when totalAnnualCost > 0.
C20_TotalCostAndBreakdown ==
    Published =>
        LET cb == results.costBreakdown
            total == results.totalAnnualCost
        IN  /\ cb.capex.amount =
                  InstalledCost("capex", CapitalRecoveryFactor(requested.financial))
            /\ cb.opex.amount = InstalledCost("opex", One)
            /\ total = Add(Add(cb.capex.amount, cb.opex.amount), cb.energy.amount)
            /\ \A part \in {"capex", "opex", "energy"} :
                  cb[part].percentage = Mul(Div(cb[part].amount, total), Int2Num(100))
            /\ Positive(total) =>
                  Add(Add(cb.capex.percentage, cb.opex.percentage), cb.energy.percentage)
                      = Int2Num(100)

\* the source with twice its capacity and every other field as it is
Doubled(source) == [source EXCEPT !.capacity = Mul(Int2Num(2), source.capacity)]

\* C21: for every source object with a capacity > 0, calculateLCOE with the
\* capacity doubled and the capex, opex, profile (the source's own, or none
\* and the default capacity factor) and financial parameters unchanged gives
\* the value it gives for the source as it is.
C21_LcoeUnchangedByDoubling ==
    \A id \in DOMAIN objs :
        Positive(objs[id].capacity) =>
            \A timeSeriesData \in {objs[id].timeSeriesData, NoSeries} :
                calculateLCOE(Doubled(objs[id]), timeSeriesData, financial)
                    = calculateLCOE(objs[id], timeSeriesData, financial)

\* C21 witness: a source of the list with a capacity > 0 holds a downloaded
\* profile and the finite lcoe > 0 computed from it, which is also the lcoe
\* of the source with twice the capacity
C21_Witness ==
    \E i \in 1..Len(powerSources) :
        LET source == objs[powerSources[i]]
        IN  /\ source.type # "grid"
            /\ Positive(source.capacity)
            /\ source.timeSeriesData # NoSeries
            /\ ValidLcoe(source)
            /\ source.lcoe = calculateLCOE(source, source.timeSeriesData, financial)
            /\ source.lcoe = calculateLCOE(Doubled(source), source.timeSeriesData, financial)

\* the offsets of the claim: half a day either way (-12 .. 12 of 24 hours)
MaxOffset == HoursPerDay \div 2
Offsets == (-MaxOffset)..MaxOffset

\* offset o and then offset -o give the array back, and offset 0 leaves it
RoundTrips(a) ==
    /\ \A o \in Offsets :
          applyTimezoneCorrection(applyTimezoneCorrection(a, o), -o) = a
    /\ applyTimezoneCorrection(a, 0) = a

\* C23: every full-year array the component holds or receives (the profile
\* of a source object, the capacity factors of a full-year response) is
\* given back at every index by applyTimezoneCorrection with an offset in
\* Offsets followed by the opposite offset, and is left as it is by offset 0.
C23_TimezoneRoundTrip ==
    /\ \A id \in DOMAIN objs :
          objs[id].timeSeriesData # NoSeries => RoundTrips(objs[id].timeSeriesData)
    /\ Len(response) = HoursPerYear =>
          /\ RoundTrips(CapacityFactors("pvgis", response))
          /\ RoundTrips(CapacityFactors("ninja", response))

\* C23 witness: a solar source holds the capacity factors of a full-year
\* response shifted by the offset of its longitude, the shift moved samples,
\* and the opposite offset gives the provider's series back
C23_Witness ==
    /\ Len(response) = HoursPerYear
    /\ \E i \in 1..Len(powerSources) :
          LET source == objs[powerSources[i]]
              o == calculateTimezoneOffset(source.location.lng)
              utc == CapacityFactors("pvgis", response)
          IN  /\ source.type = "solar"
              /\ o # 0
              /\ source.timeSeriesData = applyTimezoneCorrection(utc, o)
              /\ source.timeSeriesData # utc
              /\ applyTimezoneCorrection(source.timeSeriesData, -o) = utc

\* the days before month m (1-based) and the hours of the month
DaysBefore[m \in 1..12] == IF m = 1 THEN 0 ELSE DaysBefore[m - 1] + daysInMonth[m - 1]
MonthHours ==
    [m \in 1..12 |->
        {hour \in Hours : /\ hour >= HoursPerDay * DaysBefore[m]
                          /\ hour < HoursPerDay * (DaysBefore[m] + daysInMonth[m])}]

\* the field of the hour records of a set of consecutive hours, summed in
\* hour order
SumOverHours(hours, field) ==
    IF hours = {} THEN Zero
    ELSE LET first == CHOOSE hour \in hours : \A other \in hours : hour <= other
         IN  SumTo([k \in 1..Cardinality(hours) |-> HourRecord(first + k - 1)[field]],
                   Cardinality(hours))

\* C24 (as claimed): a published result has 12 monthly buckets; bucket m
\* holds the sums of energyUsed and curtailedEnergy over the consecutive
\* hours of month m (from the days before it, by daysInMonth); every hour of
\* the year is in exactly one month; and the buckets add up to
\* totalEnergyUsed and totalCurtailedEnergy.
C24_MonthlyBucketsPartitionYear ==
    Published =>
        /\ Len(results.monthlyData) = 12
        /\ \A m \in 1..12 :
              /\ results.monthlyData[m].energy = SumOverHours(MonthHours[m], "energyUsed")
              /\ results.monthlyData[m].curtailed =
                    SumOverHours(MonthHours[m], "curtailedEnergy")
        /\ \A hour \in Hours : Cardinality({m \in 1..12 : hour \in MonthHours[m]}) = 1
        /\ SumTo([m \in 1..12 |-> results.monthlyData[m].energy], 12)
              = results.energyStats.totalEnergyUsed
        /\ SumTo([m \in 1..12 |-> results.monthlyData[m].curtailed], 12)
              = results.energyStats.totalCurtailedEnergy

\* a step in which a success callback runs its setInputs updater
FetchResolves == fetch.active /\ ~fetch'.active /\ apiError' = apiError

\* the type whose handler issued the request
RequestedType == IF fetch.kind = "pvgis" THEN "solar" ELSE "wind"

\* C25 (as claimed): when a success callback stores a profile, the index it
\* writes at exists and holds the source object the request was started for,
\* and that source still has the type and the location of the request.
C25_ProfileStoredOnRequestedSource ==
    [][FetchResolves =>
          /\ fetch.sourceIndex + 1 <= Len(powerSources)
          /\ powerSources[fetch.sourceIndex + 1] = fetch.source
          /\ objs[fetch.source].type = RequestedType
          /\ objs[fetch.source].location = fetch.location]_vars

\* the requested sources the hour loop visits, in the order it visits them;
\* the k-th record of an hour belongs to the k-th of them
DispatchOrder ==
    SelectSeq(SortSources(requested.sources), LAMBDA source : ~SkippedByDispatch(source))

\* the k-th source of DispatchOrder supplied power in some hour
Dispatched(k) == \E hour \in Hours : Len(HourRecord(hour).sources) >= k

\* the energy the k-th source of DispatchOrder supplied over the year
EnergyFrom(k) ==
    SumTo([h \in 1..HoursPerYear |->
              IF Len(HourRecord(h - 1).sources) >= k
              THEN HourRecord(h - 1).sources[k].powerUsed
              ELSE Zero],
          HoursPerYear)

\* C26 (as claimed): the energy cost of a published run is the sum, over the
\* sources that were dispatched, of the energy the source supplied * 1000 *
\* the lcoe of that source, also with several sources of one type.
C26_EnergyPricedAtSupplierLcoe ==
    Published =>
        results.costBreakdown.energy.amount =
            SumTo([k \in 1..Len(DispatchOrder) |->
                      IF Dispatched(k)
                      THEN Mul(Mul(EnergyFrom(k), Int2Num(1000)), DispatchOrder[k].lcoe)
                      ELSE Zero],
                  Len(DispatchOrder))

\* the declared domain of the financial parameters
DeclaredFinancial(fin) == LessEq(Zero, fin.returnRate) /\ fin.lifetime >= 1

\* C27 (as claimed): for the financial parameters a published run computed
\* from, if they are in the declared domain (return rate 0 included) the
\* capital recovery factor is finite and > 0 and the annualized capex of the
\* result is finite.
C27_CrfIsFinitePositive ==
    (Published /\ DeclaredFinancial(computedFrom.financial)) =>
        /\ IsFinite(CapitalRecoveryFactor(computedFrom.financial))
        /\ Positive(CapitalRecoveryFactor(computedFrom.financial))
        /\ IsFinite(results.costBreakdown.capex.amount)

\* C28: in every state the list has a source and selectedPowerSource is an
\* index of the list.
C28_SelectionIsValidIndex ==
    /\ Len(powerSources) >= 1
    /\ selectedPowerSource >= 0
    /\ selectedPowerSource < Len(powerSources)

\* C28 witness: the last source of the initial list was removed while it was
\* selected, and the selection moved to the source before it
C28_Witness ==
    /\ ListedSources = <<InitSources[1], InitSources[2]>>
    /\ selectedPowerSource = 1

\* C29: in every state, a non-grid source object with a non-null lcoe has a
\* profile.
C29_LcoeOnlyWithProfile ==
    \A id \in DOMAIN objs :
        (objs[id].type # "grid" /\ objs[id].lcoe # Null) =>
            objs[id].timeSeriesData # NoSeries

\* C29 witness: a downloaded source was moved to another location and is
\* left without profile and without lcoe, next to a source that holds both
C29_Witness ==
    \E i, j \in 1..Len(powerSources) :
        LET moved == objs[powerSources[i]]
            kept == objs[powerSources[j]]
        IN  /\ moved.type # "grid"
            /\ moved.location \in LocationValues
            /\ moved.timeSeriesData = NoSeries
            /\ moved.lcoe = Null
            /\ kept.type # "grid"
            /\ kept.timeSeriesData # NoSeries
            /\ kept.lcoe # Null

\* C30: a Download click that issues a request sets isDownloading, and
\* whenever isDownloading is set it is cleared again later (or the component
\* is gone), whatever the outcome of the request, provided the request
\* settles.
C30_DownloadingIsCleared ==
    /\ [][RequestIssued => isDownloading']_vars
    /\ (isDownloading ~> (~isDownloading \/ crashed))

\* C30 witness: a download was stored, a later request failed in its
\* callbacks, and the download control is enabled again
C30_Witness ==
    /\ response # NoResponse
    /\ apiError \in FailureKinds
    /\ ~fetch.active
    /\ ~isDownloading
    /\ ~crashed

====
